---- MODULE Spec2Model ----
(***************************************************************************)
(* Model of main.py: a Telegram bot that relays every non-command text     *)
(* message to an Ollama /api/generate endpoint and replies with the        *)
(* generated text.  The state is the module-level configuration, the       *)
(* queue of updates fetched by run_polling, the position of the handler    *)
(* coroutine that is running, its locals, and the calls made so far to the *)
(* two external services (Telegram Bot API, Ollama HTTP endpoint).         *)
(***************************************************************************)
EXTENDS Integers, Sequences, FiniteSets, TLC

\* Number of updates that arrive during one run of the bot.
MaxUpdates == 2

----------------------------------------------------------------------------
(* Python values *)

\* An optional string is a sequence of length at most one: None is <<>>.
None == <<>>
Some(s) == <<s>>

\* str(v) as an f-string renders an optional string.
Str(v) == IF v = None THEN "None" ELSE v[1]

\* Truthiness of an optional string: None and "" are falsy.
Truthy(v) == v # None /\ v[1] # ""

\* os.environ.get(key) and os.environ.get(key, default)
EnvGet(environ, key) == IF key \in DOMAIN environ THEN Some(environ[key]) ELSE None
EnvGetDefault(environ, key, default) ==
    IF key \in DOMAIN environ THEN environ[key] ELSE default

\* dict.get(key, default)
DictGet(d, key, default) == IF key \in DOMAIN d THEN d[key] ELSE default

----------------------------------------------------------------------------
(* Inputs *)

\* Process environments the bot can be started in.
Environments ==
    { [TELEGRAM_BOT_TOKEN |-> "123:abc"],
      [TELEGRAM_BOT_TOKEN |-> "123:abc", OLLAMA_HOST |-> ""],
      [TELEGRAM_BOT_TOKEN |-> "123:abc", OLLAMA_HOST |-> "http://ollama:11434"],
      [OLLAMA_HOST |-> "http://ollama:11434", OLLAMA_MODEL |-> "mistral"] }

\* Updates delivered by the messaging platform (update_id is added on arrival).
InboundUpdates ==
    { [text |-> "hi", chat_id |-> 1, user |-> "Alice"],
      [text |-> "yo", chat_id |-> 2, user |-> "Bob"],
      [text |-> "/start", chat_id |-> 1, user |-> "Alice"],
      [text |-> "/help", chat_id |-> 2, user |-> "Bob"] }

\* What requests.post can do: raise ConnectionError, raise another
\* exception, or return a response with a status code and a body.
JsonBodies ==
    { [valid |-> TRUE, data |-> [response |-> "Hello!", done |-> "true"]],
      [valid |-> TRUE, data |-> [done |-> "true"]],
      [valid |-> FALSE, data |-> [raw |-> "<html>"]] }

ErrorBody == [valid |-> TRUE, data |-> [error |-> "model not found"]]

HttpResponses ==
    { [status_code |-> 200, reason |-> "OK", body |-> b] : b \in JsonBodies }
    \cup
    { [status_code |-> 304, reason |-> "Not Modified",
       body |-> [valid |-> TRUE, data |-> [response |-> "Hello!", done |-> "true"]]],
      [status_code |-> 404, reason |-> "Not Found", body |-> ErrorBody],
      [status_code |-> 500, reason |-> "Internal Server Error", body |-> ErrorBody] }

PostResults ==
    { [kind |-> "ConnectionError", detail |-> "Connection refused"],
      [kind |-> "Timeout", detail |-> "Read timed out."] }
    \cup
    { [kind |-> "Response", response |-> r] : r \in HttpResponses }

\* A call to the Telegram Bot API either completes or raises.
TelegramErrorDetail == "Timed out"

----------------------------------------------------------------------------
(* State *)

VARIABLES
    TELEGRAM_BOT_TOKEN, OLLAMA_HOST, OLLAMA_GENERATE_ENDPOINT, OLLAMA_MODEL,
    updates,        \* updates fetched and not yet dispatched, in arrival order
    next_update_id, \* number of updates that have arrived
    pc,             \* position of the running handler, "idle" when none runs
    update,         \* the update the running handler was called with
    response,       \* local `response` of handle_message
    ollama_response,\* local `ollama_response` of handle_message
    exc,            \* the exception being handled (str(e)), None when none
    bot_calls,      \* calls made to the Telegram Bot API, with their outcome
    http_calls,     \* POSTs issued to the inference endpoint, with their result
    json_calls,     \* update ids for which response.json() was called
    error_log,      \* messages passed to logging.error
    finished        \* handler invocations that ended, and how

config == <<TELEGRAM_BOT_TOKEN, OLLAMA_HOST, OLLAMA_GENERATE_ENDPOINT, OLLAMA_MODEL>>
locals == <<response, ollama_response, exc>>
vars == <<config, updates, next_update_id, pc, update, locals,
          bot_calls, http_calls, json_calls, error_log, finished>>

NoUpdate == [update_id |-> 0, text |-> "", chat_id |-> 0, user |-> ""]
NoResponse == [status_code |-> 0, reason |-> "", body |-> ErrorBody]

----------------------------------------------------------------------------
(* Module-level configuration, main.py lines 12-17 *)

DefaultToken == "YOUR_TELEGRAM_BOT_TOKEN"
DefaultModel == "llama3"

Endpoint(host) == Str(host) \o "/api/generate"

Init ==
    /\ \E environ \in Environments :
         /\ TELEGRAM_BOT_TOKEN = EnvGetDefault(environ, "TELEGRAM_BOT_TOKEN", DefaultToken)
         /\ OLLAMA_HOST = EnvGet(environ, "OLLAMA_HOST")
         /\ OLLAMA_GENERATE_ENDPOINT = Endpoint(EnvGet(environ, "OLLAMA_HOST"))
         /\ OLLAMA_MODEL = EnvGetDefault(environ, "OLLAMA_MODEL", DefaultModel)
    /\ updates = <<>>
    /\ next_update_id = 0
    /\ pc = "idle"
    /\ update = NoUpdate
    /\ response = NoResponse
    /\ ollama_response = None
    /\ exc = None
    /\ bot_calls = <<>>
    /\ http_calls = <<>>
    /\ json_calls = {}
    /\ error_log = <<>>
    /\ finished = <<>>

----------------------------------------------------------------------------
(* Texts *)

ConfigErrorText ==
    "Ollama host is not configured. Please set the OLLAMA_HOST environment variable."

NoResponseText == "No response from model."

ConnectionErrorText(host) ==
    "Could not connect to the Ollama server at " \o Str(host)
        \o ". Please make sure it is running and accessible."

HTTPErrorText(e) == "HTTP error from Ollama server: " \o e

UnexpectedErrorText(e) == "An unexpected error occurred: " \o e

MentionHtml(user) == "<a href=\"tg://user\">" \o user \o "</a>"

GreetingText(user) ==
    "Hi " \o MentionHtml(user) \o "! I'm a bot powered by a local Ollama model. "
        \o "Just send me a message and I'll respond."

\* Faulty variant of Payload: the previous prompt is carried along.
PayloadWithHistory(user_message) ==
    [model |-> OLLAMA_MODEL,
     prompt |-> (IF http_calls = <<>> THEN ""
                 ELSE http_calls[Len(http_calls)].json.prompt \o "\n") \o user_message,
     stream |-> FALSE]

\* The request body built for one message, lines 71-75.
Payload(user_message) ==
    [model |-> OLLAMA_MODEL, prompt |-> user_message, stream |-> FALSE]

\* response.raise_for_status(): raises HTTPError for 4xx and 5xx.
IsErrorStatus(status_code) == 400 <= status_code /\ status_code < 600

HTTPErrorDetail(r, url) ==
    ToString(r.status_code)
        \o (IF r.status_code < 500 THEN " Client Error: " ELSE " Server Error: ")
        \o r.reason \o " for url: " \o url

JSONDecodeErrorDetail == "Expecting value: line 1 column 1 (char 0)"

----------------------------------------------------------------------------
(* The dispatch loop, main.py lines 106-116 *)

IsCommand(text) == text \in {"/start", "/help"}

\* The handler registered for an update; "none" when no handler matches.
HandlerFor(u) ==
    IF u.text = "/start" THEN "start"
    ELSE IF ~IsCommand(u.text) THEN "handle_message"
    ELSE "none"

\* Faulty variant of DispatchIndex: the newest pending update first.
NewestFirst(q) == Len(q)

\* Which of the pending updates is processed next: the oldest one.

DispatchIndex(q) == 1

Remove(q, i) == SubSeq(q, 1, i - 1) \o SubSeq(q, i + 1, Len(q))

\* get_updates delivers a new update while the loop is polling.
Arrive ==
    /\ next_update_id < MaxUpdates
    /\ \E u \in InboundUpdates :
         updates' = Append(updates,
                           [update_id |-> next_update_id + 1, text |-> u.text,
                            chat_id |-> u.chat_id, user |-> u.user])
    /\ next_update_id' = next_update_id + 1
    /\ UNCHANGED <<config, pc, update, locals, bot_calls, http_calls,
                   json_calls, error_log, finished>>

\* process_update: one update at a time, only when no handler is running.
Dispatch ==
    /\ pc = "idle"
    /\ updates # <<>>
    /\ LET i == DispatchIndex(updates)
           u == updates[i]
       IN /\ updates' = Remove(updates, i)
          /\ IF HandlerFor(u) = "none"
                THEN /\ UNCHANGED <<pc, update>>
                     /\ finished' = Append(finished,
                            [update |-> u, handler |-> "none", how |-> "ignored"])
                ELSE /\ pc' = HandlerFor(u)
                     /\ update' = u
                     /\ UNCHANGED finished
    /\ UNCHANGED <<config, next_update_id, locals, bot_calls, http_calls,
                   json_calls, error_log>>

----------------------------------------------------------------------------
(* Handler steps *)

BotCall(method, text, ok) ==
    [update_id |-> update.update_id, chat_id |-> update.chat_id,
     method |-> method, text |-> text, ok |-> ok]

\* The handler coroutine ends: it returns ("returned") or an exception
\* leaves it ("raised"); the loop is free again.
Finish(handler, how) ==
    /\ pc' = "idle"
    /\ update' = NoUpdate
    /\ response' = NoResponse
    /\ ollama_response' = None
    /\ exc' = None
    /\ finished' = Append(finished,
           [update |-> update, handler |-> handler, how |-> how])

\* start, lines 45-51
Start ==
    /\ pc = "start"
    /\ \E ok \in BOOLEAN :
         /\ bot_calls' = Append(bot_calls,
                BotCall("reply_html", GreetingText(update.user), ok))
         /\ Finish("start", IF ok THEN "returned" ELSE "raised")
    /\ UNCHANGED <<config, updates, next_update_id, http_calls, json_calls, error_log>>

\* handle_message, lines 56-63: the configuration check.
\* Faulty variant of HostConfigured: an empty string counts as configured.
HostNotNone == OLLAMA_HOST # None

HostConfigured == Truthy(OLLAMA_HOST)

CheckHost ==
    /\ pc = "handle_message"
    /\ IF ~HostConfigured
          THEN \E ok \in BOOLEAN :
                 /\ bot_calls' = Append(bot_calls,
                        BotCall("reply_text", ConfigErrorText, ok))
                 /\ Finish("handle_message", IF ok THEN "returned" ELSE "raised")
          ELSE /\ pc' = "send_chat_action"
               /\ UNCHANGED <<update, locals, bot_calls, finished>>
    /\ UNCHANGED <<config, updates, next_update_id, http_calls, json_calls, error_log>>

\* lines 65-67: the typing indicator, before the try block.
SendChatAction ==
    /\ pc = "send_chat_action"
    /\ \E ok \in BOOLEAN :
         /\ bot_calls' = Append(bot_calls, BotCall("send_chat_action", "typing", ok))
         /\ IF ok
               THEN /\ pc' = "post"
                    /\ UNCHANGED <<update, locals, finished>>
               ELSE Finish("handle_message", "raised")
    /\ UNCHANGED <<config, updates, next_update_id, http_calls, json_calls, error_log>>

\* Faulty variant of ExceptClauseFor: a connection failure is retried.
RetryOnConnectionError(kind) ==
    IF kind = "ConnectionError" THEN "post"
    ELSE IF kind = "HTTPError" THEN "except_HTTPError"
    ELSE "except_Exception"

\* Which except clause of the try block takes an exception raised inside it.
ExceptClauseFor(kind) ==
    IF kind = "ConnectionError" THEN "except_ConnectionError"
    ELSE IF kind = "HTTPError" THEN "except_HTTPError"
    ELSE "except_Exception"

\* lines 69-78: build the payload and POST it.
Post ==
    /\ pc = "post"
    /\ \E result \in PostResults :
         /\ http_calls' = Append(http_calls,
                [update_id |-> update.update_id, url |-> OLLAMA_GENERATE_ENDPOINT,
                 json |-> Payload(update.text), result |-> result])
         /\ IF result.kind = "Response"
               THEN /\ response' = result.response
                    /\ pc' = "raise_for_status"
                    /\ UNCHANGED exc
               ELSE /\ exc' = Some(result.detail)
                    /\ pc' = ExceptClauseFor(result.kind)
                    /\ UNCHANGED response
    /\ UNCHANGED <<config, updates, next_update_id, update, ollama_response,
                   bot_calls, json_calls, error_log, finished>>

\* line 79
RaiseForStatus ==
    /\ pc = "raise_for_status"
    /\ IF IsErrorStatus(response.status_code)
          THEN /\ exc' = Some(HTTPErrorDetail(response, OLLAMA_GENERATE_ENDPOINT))
               /\ pc' = ExceptClauseFor("HTTPError")
          ELSE /\ pc' = "json"
               /\ UNCHANGED exc
    /\ UNCHANGED <<config, updates, next_update_id, update, response, ollama_response,
                   bot_calls, http_calls, json_calls, error_log, finished>>

\* lines 82-83
ParseJson ==
    /\ pc = "json"
    /\ json_calls' = json_calls \cup {update.update_id}
    /\ IF response.body.valid
          THEN /\ ollama_response' =
                     Some(DictGet(response.body.data, "response", NoResponseText))
               /\ pc' = "reply"
               /\ UNCHANGED exc
          ELSE /\ exc' = Some(JSONDecodeErrorDetail)
               /\ pc' = ExceptClauseFor("JSONDecodeError")
               /\ UNCHANGED ollama_response
    /\ UNCHANGED <<config, updates, next_update_id, update, response,
                   bot_calls, http_calls, error_log, finished>>

\* line 85: the reply, inside the try block.
Reply ==
    /\ pc = "reply"
    /\ \E ok \in BOOLEAN :
         /\ bot_calls' = Append(bot_calls, BotCall("reply_text", ollama_response[1], ok))
         /\ IF ok
               THEN Finish("handle_message", "returned")
               ELSE /\ exc' = Some(TelegramErrorDetail)
                    /\ pc' = ExceptClauseFor("TelegramError")
                    /\ UNCHANGED <<update, response, ollama_response, finished>>
    /\ UNCHANGED <<config, updates, next_update_id, http_calls, json_calls, error_log>>

\* An except clause: log the message, then reply with it.  An exception
\* raised by the reply inside an except clause leaves the handler.
ReportError(error_message) ==
    /\ error_log' = Append(error_log, error_message)
    /\ \E ok \in BOOLEAN :
         /\ bot_calls' = Append(bot_calls, BotCall("reply_text", error_message, ok))
         /\ Finish("handle_message", IF ok THEN "returned" ELSE "raised")
    /\ UNCHANGED <<config, updates, next_update_id, http_calls, json_calls>>

\* lines 87-93
ExceptConnectionError ==
    /\ pc = "except_ConnectionError"
    /\ ReportError(ConnectionErrorText(OLLAMA_HOST))

\* lines 95-98
ExceptHTTPError ==
    /\ pc = "except_HTTPError"
    /\ ReportError(HTTPErrorText(exc[1]))

\* lines 100-103
ExceptException ==
    /\ pc = "except_Exception"
    /\ ReportError(UnexpectedErrorText(exc[1]))

Next ==
    \/ Arrive
    \/ Dispatch
    \/ Start
    \/ CheckHost
    \/ SendChatAction
    \/ Post
    \/ RaiseForStatus
    \/ ParseJson
    \/ Reply
    \/ ExceptConnectionError
    \/ ExceptHTTPError
    \/ ExceptException

Spec == Init /\ [][Next]_vars

----------------------------------------------------------------------------
(* What was observed for one update *)

Range(q) == { q[i] : i \in DOMAIN q }

\* Handler invocations of handle_message that have ended.
Handled == { f \in Range(finished) : f.handler = "handle_message" }

\* All calls to the Telegram Bot API made for an update, in order.
BotCallsFor(id) == SelectSeq(bot_calls, LAMBDA c : c.update_id = id)

\* The text replies that reached the chat for an update, in order.
RepliesSent(id) ==
    SelectSeq(bot_calls,
              LAMBDA c : c.update_id = id /\ c.method = "reply_text" /\ c.ok)

\* The reply calls attempted for an update, delivered or not.
RepliesTried(id) ==
    SelectSeq(bot_calls, LAMBDA c : c.update_id = id /\ c.method = "reply_text")

\* The POSTs issued for an update, in order.
PostsFor(id) == SelectSeq(http_calls, LAMBDA c : c.update_id = id)

Texts(calls) == [i \in DOMAIN calls |-> calls[i].text]
Oks(calls) == [i \in DOMAIN calls |-> calls[i].ok]
Results(posts) == [i \in DOMAIN posts |-> posts[i].result]
Requests(posts) == [i \in DOMAIN posts |-> <<posts[i].url, posts[i].json>>]

\* The update's only POST returned a response (connection-level success).
GotResponse(id) ==
    /\ Len(PostsFor(id)) = 1
    /\ PostsFor(id)[1].result.kind = "Response"

ResponseOf(id) == PostsFor(id)[1].result.response

IsSuccessStatus(status_code) == 200 <= status_code /\ status_code < 300

----------------------------------------------------------------------------
(* Claims *)

\* C1: every non-command text message whose handler has ended got exactly
\* one text reply in its chat, whichever branch the handler took and
\* whichever of its calls failed.
C1_ExactlyOneReply ==
    \A f \in Handled : Len(RepliesSent(f.update.update_id)) = 1

\* C2: when OLLAMA_HOST is unset or empty, no POST is ever issued to the
\* inference endpoint, every reply the handler sends or tries to send is the
\* fixed configuration-error text, a message never gets more than one reply,
\* and a handler that returned has sent exactly one.
C2_NoPostWhenHostUnset ==
    (OLLAMA_HOST = None \/ OLLAMA_HOST = Some("")) =>
        /\ http_calls = <<>>
        /\ json_calls = {}
        /\ \A f \in Handled :
             LET id == f.update.update_id
             IN /\ \A i \in DOMAIN RepliesTried(id) :
                      RepliesTried(id)[i].text = ConfigErrorText
                /\ Len(RepliesTried(id)) = 1
                /\ f.how = "returned" => Texts(RepliesSent(id)) = <<ConfigErrorText>>
        /\ \A i \in DOMAIN bot_calls : bot_calls[i].method # "send_chat_action"

\* C2 witness: with an empty OLLAMA_HOST a text message was handled and
\* answered with the configuration-error text.
C2_Witness ==
    /\ OLLAMA_HOST = Some("")
    /\ \E f \in Handled :
         /\ f.how = "returned"
         /\ Texts(RepliesSent(f.update.update_id)) = <<ConfigErrorText>>

\* C3: no failure leaves handle_message: every invocation of the handler
\* that has ended has returned normally.
C3_HandlerAlwaysReturns ==
    \A f \in Handled : f.how = "returned"

\* C4: when the POST returned a non-success HTTP status, the body was never
\* parsed, the reply is the HTTP-error message carrying the status detail
\* (and no other message), and the handler returned normally.
C4_HttpFailureReported ==
    \A f \in Handled :
        LET id == f.update.update_id
        IN (GotResponse(id) /\ ~IsSuccessStatus(ResponseOf(id).status_code)) =>
              /\ id \notin json_calls
              /\ Texts(RepliesSent(id)) =
                    <<HTTPErrorText(HTTPErrorDetail(ResponseOf(id), PostsFor(id)[1].url))>>
              /\ f.how = "returned"

\* C5: when the POST failed at connection level, the reply is the
\* connection-failure message naming OLLAMA_HOST (and no other message), and
\* the handler returned normally.
C5_ConnectionFailureReported ==
    \A f \in Handled :
        LET id == f.update.update_id
        IN (Len(PostsFor(id)) = 1 /\ PostsFor(id)[1].result.kind = "ConnectionError") =>
              /\ Texts(RepliesSent(id)) = <<ConnectionErrorText(OLLAMA_HOST)>>
              /\ f.how = "returned"

\* C6: when the POST succeeded and the JSON body has a `response` field,
\* every reply sent for the message is that field's value, verbatim.
C6_ResponseVerbatim ==
    \A f \in Handled :
        LET id == f.update.update_id
        IN (/\ GotResponse(id)
            /\ IsSuccessStatus(ResponseOf(id).status_code)
            /\ ResponseOf(id).body.valid
            /\ "response" \in DOMAIN ResponseOf(id).body.data) =>
              \A i \in DOMAIN RepliesSent(id) :
                  RepliesSent(id)[i].text = ResponseOf(id).body.data.response

\* C7: when the POST succeeded and the JSON body has no `response` field,
\* every reply sent for the message is exactly "No response from model.".
C7_FallbackText ==
    \A f \in Handled :
        LET id == f.update.update_id
        IN (/\ GotResponse(id)
            /\ IsSuccessStatus(ResponseOf(id).status_code)
            /\ ResponseOf(id).body.valid
            /\ "response" \notin DOMAIN ResponseOf(id).body.data) =>
              \A i \in DOMAIN RepliesSent(id) :
                  RepliesSent(id)[i].text = "No response from model."

NonDecreasing(ids) == \A i, j \in DOMAIN ids : i < j => ids[i] <= ids[j]
Increasing(ids) == \A i, j \in DOMAIN ids : i < j => ids[i] < ids[j]
IdsOf(calls) == [i \in DOMAIN calls |-> calls[i].update_id]
FinishedIds == [i \in DOMAIN finished |-> finished[i].update.update_id]

\* C8: updates are handled one at a time in arrival order.  Update ids are
\* given in arrival order, so: the calls made to either service never go
\* back to an earlier update, handlers end in arrival order, every call
\* belongs to a handler that has ended or to the one that is running, and
\* the updates still waiting arrived after all of those.
C8_OneAtATimeInOrder ==
    /\ NonDecreasing(IdsOf(bot_calls))
    /\ NonDecreasing(IdsOf(http_calls))
    /\ Increasing(FinishedIds)
    /\ Increasing(IdsOf(updates))
    /\ \A id \in Range(IdsOf(bot_calls)) \cup Range(IdsOf(http_calls)) :
          \/ id \in Range(FinishedIds)
          \/ pc # "idle" /\ id = update.update_id
    /\ \A id \in Range(FinishedIds) \cup {update.update_id} :
          \A w \in Range(IdsOf(updates)) : id < w

\* C8 witness: the handler of the first message is in flight, its POST has
\* just returned, and a second message of the same chat has arrived and is
\* waiting: nothing has been done for it.
C8_Witness ==
    /\ pc = "raise_for_status"
    /\ update.update_id = 1
    /\ Len(updates) = 1
    /\ updates[1].chat_id = update.chat_id
    /\ Len(http_calls) = 1
    /\ BotCallsFor(updates[1].update_id) = <<>>

\* The POST of an update raised or returned an error status.
PostFailed(id) ==
    /\ Len(PostsFor(id)) >= 1
    /\ \/ PostsFor(id)[1].result.kind # "Response"
       \/ /\ PostsFor(id)[1].result.kind = "Response"
          /\ PostsFor(id)[1].result.response.status_code >= 400

\* The error message the code builds for a failed POST.
FailureText(post) ==
    IF post.result.kind = "ConnectionError"
        THEN "Could not connect to the Ollama server at " \o OLLAMA_HOST[1]
                \o ". Please make sure it is running and accessible."
    ELSE IF post.result.kind = "Response"
        THEN "HTTP error from Ollama server: "
                \o HTTPErrorDetail(post.result.response, post.url)
    ELSE "An unexpected error occurred: " \o post.result.detail

\* C9: at most one POST is issued per message; when that POST failed
\* (exception or error status) the handler ended after a single attempt to
\* reply, whose text is the error message of the failure.
C9_NoRetries ==
    /\ \A id \in 1..next_update_id : Len(PostsFor(id)) <= 1
    /\ \A f \in Handled :
          LET id == f.update.update_id
          IN PostFailed(id) =>
                Texts(RepliesTried(id)) = <<FailureText(PostsFor(id)[1])>>

\* C9 witness: a message whose POST failed was handled and answered.
C9_Witness ==
    \E f \in Handled :
        /\ PostFailed(f.update.update_id)
        /\ Len(RepliesSent(f.update.update_id)) = 1

Observed(f) ==
    LET id == f.update.update_id
    IN [requests |-> Requests(PostsFor(id)),
        calls |-> [i \in DOMAIN BotCallsFor(id) |->
                      <<BotCallsFor(id)[i].method, BotCallsFor(id)[i].text>>],
        replies |-> Texts(RepliesSent(id)),
        how |-> f.how]

\* C10, amended: no hidden history.  Every request built for a message is
\* {model: OLLAMA_MODEL, prompt: <its text>, stream: false} sent to
\* OLLAMA_HOST + "/api/generate"; two handled messages with the same text,
\* the same inference outcome and the same outcomes of their own Telegram
\* calls were handled identically (same requests, same calls, same replies,
\* same ending), however many messages were handled before them.
C10_NoHiddenHistoryState ==
    /\ \A f \in Handled :
          \A i \in DOMAIN PostsFor(f.update.update_id) :
              LET post == PostsFor(f.update.update_id)[i]
              IN /\ post.json = [model |-> OLLAMA_MODEL, prompt |-> f.update.text,
                                 stream |-> FALSE]
                 /\ post.url = OLLAMA_HOST[1] \o "/api/generate"
    /\ \A f, g \in Handled :
          (/\ f.update.text = g.update.text
           /\ Results(PostsFor(f.update.update_id)) = Results(PostsFor(g.update.update_id))
           /\ Oks(BotCallsFor(f.update.update_id)) = Oks(BotCallsFor(g.update.update_id)))
              => Observed(f) = Observed(g)

====
